---- MODULE Spec2Model ----
(***************************************************************************)
(* Model of the folded SHA-256 step function: the message framer           *)
(* (utils.rs), the native compression engine (utils.rs), the constrained   *)
(* compression engine (circuit.rs) and the step contract with its          *)
(* field-element adapters (main.rs).                                       *)
(*                                                                         *)
(* Representation.  TLC integers are 32-bit signed, so a native u32 is the *)
(* pair <<hi, lo>> of its two 16-bit halves (value = hi * 2^16 + lo) and   *)
(* all native arithmetic is done on the halves with explicit carries.  A   *)
(* constraint-system UInt32 / UInt8 is its little-endian sequence of       *)
(* Boolean bits, as in ark-r1cs-std.  A field element is the little-endian *)
(* byte sequence of its canonical big integer (what into_bigint()          *)
(* .to_bytes_le() returns).                                                *)
(***************************************************************************)
EXTENDS Integers, Sequences, FiniteSets, TLC

(***************************************************************************)
(* Program constants.                                                      *)
(***************************************************************************)
BLOCK_LENGTH_BYTES == 64

STATE_LEN == 8

\* utils.rs: the 64 round constants, each as <<high half, low half>>.
K ==
  <<
     <<\H428a, \H2f98>>, <<\H7137, \H4491>>, <<\Hb5c0, \Hfbcf>>, <<\He9b5, \Hdba5>>, <<\H3956, \Hc25b>>, <<\H59f1, \H11f1>>, <<\H923f, \H82a4>>, <<\Hab1c, \H5ed5>>,
     <<\Hd807, \Haa98>>, <<\H1283, \H5b01>>, <<\H2431, \H85be>>, <<\H550c, \H7dc3>>, <<\H72be, \H5d74>>, <<\H80de, \Hb1fe>>, <<\H9bdc, \H06a7>>, <<\Hc19b, \Hf174>>,
     <<\He49b, \H69c1>>, <<\Hefbe, \H4786>>, <<\H0fc1, \H9dc6>>, <<\H240c, \Ha1cc>>, <<\H2de9, \H2c6f>>, <<\H4a74, \H84aa>>, <<\H5cb0, \Ha9dc>>, <<\H76f9, \H88da>>,
     <<\H983e, \H5152>>, <<\Ha831, \Hc66d>>, <<\Hb003, \H27c8>>, <<\Hbf59, \H7fc7>>, <<\Hc6e0, \H0bf3>>, <<\Hd5a7, \H9147>>, <<\H06ca, \H6351>>, <<\H1429, \H2967>>,
     <<\H27b7, \H0a85>>, <<\H2e1b, \H2138>>, <<\H4d2c, \H6dfc>>, <<\H5338, \H0d13>>, <<\H650a, \H7354>>, <<\H766a, \H0abb>>, <<\H81c2, \Hc92e>>, <<\H9272, \H2c85>>,
     <<\Ha2bf, \He8a1>>, <<\Ha81a, \H664b>>, <<\Hc24b, \H8b70>>, <<\Hc76c, \H51a3>>, <<\Hd192, \He819>>, <<\Hd699, \H0624>>, <<\Hf40e, \H3585>>, <<\H106a, \Ha070>>,
     <<\H19a4, \Hc116>>, <<\H1e37, \H6c08>>, <<\H2748, \H774c>>, <<\H34b0, \Hbcb5>>, <<\H391c, \H0cb3>>, <<\H4ed8, \Haa4a>>, <<\H5b9c, \Hca4f>>, <<\H682e, \H6ff3>>,
     <<\H748f, \H82ee>>, <<\H78a5, \H636f>>, <<\H84c8, \H7814>>, <<\H8cc7, \H0208>>, <<\H90be, \Hfffa>>, <<\Ha450, \H6ceb>>, <<\Hbef9, \Ha3f7>>, <<\Hc671, \H78f2>>
  >>

\* main.rs: the 8 initialization words.
H ==
  << <<\H6a09, \He667>>, <<\Hbb67, \Hae85>>, <<\H3c6e, \Hf372>>, <<\Ha54f, \Hf53a>>, <<\H510e, \H527f>>, <<\H9b05, \H688c>>, <<\H1f83, \Hd9ab>>, <<\H5be0, \Hcd19>> >>

(***************************************************************************)
(* Native 32-bit word algebra (Rust u32 operators used by utils.rs).       *)
(***************************************************************************)
Pow2(n) == 2 ^ n

HALF == Pow2(16)

\* Bitwise xor / and of two n-bit integers: bit by bit, the low half of the
\* bits and the high half apart.
RECURSIVE XorBits(_, _, _)
XorBits(a, b, n) ==
  IF n = 0 THEN 0
  ELSE IF n = 1 THEN (a + b) % 2
  ELSE LET m == n \div 2
       IN  XorBits(a % Pow2(m), b % Pow2(m), m)
             + Pow2(m) * XorBits(a \div Pow2(m), b \div Pow2(m), n - m)

RECURSIVE AndBits(_, _, _)
AndBits(a, b, n) ==
  IF n = 0 THEN 0
  ELSE IF n = 1 THEN (a % 2) * (b % 2)
  ELSE LET m == n \div 2
       IN  AndBits(a % Pow2(m), b % Pow2(m), m)
             + Pow2(m) * AndBits(a \div Pow2(m), b \div Pow2(m), n - m)

\* a ^ b
\* The xor / and of every pair of 4-bit digits, tabulated once: entry
\* [x + 1][y + 1] is x ^ y (x & y).
XorNibble ==
  SubSeq([x \in 1..Pow2(4) |->
            SubSeq([y \in 1..Pow2(4) |-> XorBits(x - 1, y - 1, 4)], 1, Pow2(4))],
         1, Pow2(4))

AndNibble ==
  SubSeq([x \in 1..Pow2(4) |->
            SubSeq([y \in 1..Pow2(4) |-> AndBits(x - 1, y - 1, 4)], 1, Pow2(4))],
         1, Pow2(4))

\* 4-bit digit d (from 0, least significant first) of a, as a table index.
Nibble(a, d) == ((a \div Pow2(4 * d)) % Pow2(4)) + 1

\* Bitwise xor / and of two 16-bit halves, digit by digit.
Xor16(a, b) ==
  XorNibble[Nibble(a, 0)][Nibble(b, 0)]
    + Pow2(4)  * XorNibble[Nibble(a, 1)][Nibble(b, 1)]
    + Pow2(8)  * XorNibble[Nibble(a, 2)][Nibble(b, 2)]
    + Pow2(12) * XorNibble[Nibble(a, 3)][Nibble(b, 3)]

And16(a, b) ==
  AndNibble[Nibble(a, 0)][Nibble(b, 0)]
    + Pow2(4)  * AndNibble[Nibble(a, 1)][Nibble(b, 1)]
    + Pow2(8)  * AndNibble[Nibble(a, 2)][Nibble(b, 2)]
    + Pow2(12) * AndNibble[Nibble(a, 3)][Nibble(b, 3)]

u32_xor(a, b) == <<Xor16(a[1], b[1]), Xor16(a[2], b[2])>>

\* a & b
u32_and(a, b) == <<And16(a[1], b[1]), And16(a[2], b[2])>>

\* !a
u32_not(a) == <<HALF - 1 - a[1], HALF - 1 - a[2]>>

\* a >> n, 0 < n < 16
u32_shr(a, n) ==
  << a[1] \div Pow2(n),
     (a[2] \div Pow2(n)) + (a[1] % Pow2(n)) * Pow2(16 - n) >>

\* a.rotate_right(n), 0 < n < 32
u32_rotate_right(a, n) ==
  LET s == IF n >= 16 THEN <<a[2], a[1]>> ELSE a
      m == n % 16
  IN  IF m = 0 THEN s
      ELSE << (s[1] \div Pow2(m)) + (s[2] % Pow2(m)) * Pow2(16 - m),
              (s[2] \div Pow2(m)) + (s[1] % Pow2(m)) * Pow2(16 - m) >>

\* Mutant of u32_wrapping_add: the carry out of the high half is kept.
u32_wrapping_add_mutant(a, b) ==
  LET lo == a[2] + b[2]
  IN  << a[1] + b[1] + (lo \div HALF), lo % HALF >>

\* a.wrapping_add(b): addition modulo 2^32
u32_wrapping_add(a, b) ==
  LET lo == a[2] + b[2]
  IN  << (a[1] + b[1] + (lo \div HALF)) % HALF, lo % HALF >>

\* u32::from_be_bytes(chunk) for a 4-byte chunk
u32_from_be_bytes(chunk) ==
  << chunk[1] * 256 + chunk[2], chunk[3] * 256 + chunk[4] >>

(***************************************************************************)
(* Native compression engine: utils.rs, update_state_ref.                  *)
(***************************************************************************)
\* data.chunks(4): the k-th chunk (k from 1); the last one may be short.
Chunk(data, k) ==
  SubSeq(data, 4 * (k - 1) + 1, IF 4 * k <= Len(data) THEN 4 * k ELSE Len(data))

NumChunks(data) == (Len(data) + 3) \div 4

\* Lines 22-25: w[0..15] from the block, big-endian, 4 bytes per word.
RefScheduleHead(data) ==
  [k \in 1..16 |-> u32_from_be_bytes(Chunk(data, k))]

\* Lines 28-45: w[i] for i = 16..63 (w is 1-based here: w[i + 1] is w[i]).
\* The loop body for one i: w with w[i] appended.
RefScheduleStep(w, i) ==
       LET a  == w[i - 15 + 1]
           b  == w[i - 2 + 1]
           s0 == u32_xor(u32_xor(u32_rotate_right(a, 7), u32_rotate_right(a, 18)),
                         u32_shr(a, 3))
           s1 == u32_xor(u32_xor(u32_rotate_right(b, 17), u32_rotate_right(b, 19)),
                         u32_shr(b, 10))
           wi == u32_wrapping_add(
                   u32_wrapping_add(u32_wrapping_add(w[i - 16 + 1], s0), w[i - 7 + 1]),
                   s1)
       IN  Append(w, wi)

\* The loop body for i = lo .. hi - 1, in order.  The range is run as its
\* first half and then its second half, which keeps the evaluation shallow;
\* the first half is complete (mid words) before the second starts.
RECURSIVE RefScheduleRange(_, _, _)
RefScheduleRange(w, lo, hi) ==
  IF hi <= lo THEN w
  ELSE IF hi = lo + 1 THEN RefScheduleStep(w, lo)
  ELSE LET mid  == (lo + hi) \div 2
           left == RefScheduleRange(w, lo, mid)
       IN  IF Len(left) # mid THEN left ELSE RefScheduleRange(left, mid, hi)

RefScheduleTail(w, i) == RefScheduleRange(w, i, 64)

RefSchedule(data) == RefScheduleTail(RefScheduleHead(data), 16)

\* Lines 49-66: one round sub-step on the working registers h.
RefRound(h, ki, wi) ==
  LET ch == u32_xor(u32_and(h[5], h[6]), u32_and(u32_not(h[5]), h[7]))
      ma == u32_xor(u32_xor(u32_and(h[1], h[2]), u32_and(h[1], h[3])),
                    u32_and(h[2], h[3]))
      s0 == u32_xor(u32_xor(u32_rotate_right(h[1], 2), u32_rotate_right(h[1], 13)),
                    u32_rotate_right(h[1], 22))
      s1 == u32_xor(u32_xor(u32_rotate_right(h[5], 6), u32_rotate_right(h[5], 11)),
                    u32_rotate_right(h[5], 25))
      t0 == u32_wrapping_add(
              u32_wrapping_add(
                u32_wrapping_add(u32_wrapping_add(h[8], s1), ch), ki), wi)
      t1 == u32_wrapping_add(s0, ma)
  IN  << u32_wrapping_add(t0, t1), h[1], h[2], h[3],
         u32_wrapping_add(h[4], t0), h[5], h[6], h[7] >>

\* The round sub-steps i = lo .. hi - 1, in order, run as the first half of
\* the range and then the second.  h keeps its 8 registers throughout;
\* reading its length makes the first half's registers be computed before
\* the second half starts.
RECURSIVE RefRoundsRange(_, _, _, _)
RefRoundsRange(h, w, lo, hi) ==
  IF hi <= lo THEN h
  ELSE IF hi = lo + 1 THEN RefRound(h, K[lo + 1], w[lo + 1])
  ELSE LET mid  == (lo + hi) \div 2
           left == RefRoundsRange(h, w, lo, mid)
       IN  IF Len(left) # 8 THEN left ELSE RefRoundsRange(left, w, mid, hi)

\* Lines 47-67: the 64 round sub-steps, from i on (i = 0: all of them).
RefRounds(h, w, i) == RefRoundsRange(h, w, i, 64)

\* update_state_ref(state, data).  The two assert_eq! abort the call
\* ("panic"); a chunk that is not 4 bytes long is Err("Invalid chunk length")
\* (line 24); otherwise the result is Ok(h.to_vec()), line 69.  w is the
\* 64-entry array of line 22: the round loop indexes w[0..63] and would
\* abort on a shorter one.  Reading its length has the whole schedule computed
\* before the first round reads it.
update_state_ref(state, data) ==
  IF Len(data) # 64 \/ Len(state) # 8
  THEN [tag |-> "panic"]
  ELSE IF \E k \in 1..16 : k <= NumChunks(data) /\ Len(Chunk(data, k)) # 4
  THEN [tag |-> "Err"]
  ELSE LET w == RefSchedule(data)
       IN  IF Len(w) # 64 THEN [tag |-> "panic"]
           ELSE [tag |-> "Ok", val |-> RefRounds(state, w, 0)]

(***************************************************************************)
(* Constraint-system word algebra (ark-r1cs-std UInt32 / UInt8 / Boolean   *)
(* operators used by circuit.rs).  A UInt32 is 32 Boolean bits, a UInt8 is *)
(* 8, least-significant bit first.  The value of a variable is the value   *)
(* its bits assign.                                                        *)
(***************************************************************************)
\* The integer a run of bits encodes: bits[from .. from + n - 1], little-endian
\* (Boolean::le_bits_to_fp restricted to a 16-bit limb).
RECURSIVE BitsVal(_, _, _)
BitsVal(bits, from, n) ==
  IF n = 0 THEN 0
  ELSE IF n = 1 THEN (IF bits[from] THEN 1 ELSE 0)
  ELSE LET m == n \div 2
       IN  BitsVal(bits, from, m) + Pow2(m) * BitsVal(bits, from + m, n - m)

\* The n low bits of the integer v, little-endian.
IntBits(v, n) == [i \in 1..n |-> (v \div Pow2(i - 1)) % 2 = 1]

\* UInt32::constant(x) for a native word x
UInt32_constant(x) == IntBits(x[2], 16) \o IntBits(x[1], 16)

\* R1CSVar::value() of a UInt32: the native word its bits encode
UInt32_value(a) == <<BitsVal(a, 17, 16), BitsVal(a, 1, 16)>>

\* UInt8::constant(b) and R1CSVar::value() of a UInt8
UInt8_constant(b) == SubSeq(IntBits(b, 8), 1, 8)

UInt8_value(a) == BitsVal(a, 1, 8)

\* a ^ b, a & b, !a : bit by bit
UInt32_xor(a, b) == SubSeq([i \in 1..32 |-> a[i] # b[i]], 1, 32)

UInt32_and(a, b) == SubSeq([i \in 1..32 |-> a[i] /\ b[i]], 1, 32)

UInt32_not(a) == SubSeq([i \in 1..32 |-> ~a[i]], 1, 32)

\* a.rotate_right(n): bit i of the result is bit (i + n) mod 32 of a
UInt32_rotate_right(a, n) ==
  SubSeq([i \in 1..32 |-> a[((i - 1 + n) % 32) + 1]], 1, 32)

\* Mutant of UInt32_shr: the bits shifted out come back in at the top.
UInt32_shr_mutant(a, n) == UInt32_rotate_right(a, n)

\* a >> n: bit i of the result is bit i + n of a, zero past the top
UInt32_shr(a, n) ==
  SubSeq([i \in 1..32 |-> IF i + n <= 32 THEN a[i + n] ELSE FALSE], 1, 32)

\* UInt32::from_bytes_be(chunk) for a chunk of 4 UInt8
UInt32_from_bytes_be(chunk) == chunk[4] \o chunk[3] \o chunk[2] \o chunk[1]

\* Sum of the low / high 16-bit limbs of a sequence of UInt32 operands.
RECURSIVE LimbSum(_, _)
LimbSum(ops, from) ==
  IF ops = << >> THEN 0
  ELSE BitsVal(Head(ops), from, 16) + LimbSum(Tail(ops), from)

\* UInt32::wrapping_add_many(operands): the operands are added as field
\* elements, the sum is decomposed into bits and the bits above bit 31 (the
\* carries) are dropped.
UInt32_wrapping_add_many(ops) ==
  LET lo == LimbSum(ops, 1)
      hi == LimbSum(ops, 17) + (lo \div HALF)
  IN  IntBits(lo, 16) \o IntBits(hi, 16)

\* a.wrapping_add(b)
UInt32_wrapping_add(a, b) == UInt32_wrapping_add_many(<<a, b>>)

(***************************************************************************)
(* Constrained compression engine: circuit.rs, one_compression_round.      *)
(***************************************************************************)
\* Lines 28-31: w[0..15] from the block.
CircuitScheduleHead(data) ==
  [k \in 1..16 |-> UInt32_from_bytes_be(Chunk(data, k))]

\* Lines 33-47: w[16..63].
\* The loop body for one i: w with w[i] appended.
CircuitScheduleStep(w, i) ==
       LET a  == w[i - 15 + 1]
           b  == w[i - 2 + 1]
           s0 == UInt32_xor(UInt32_xor(UInt32_rotate_right(a, 7),
                                       UInt32_rotate_right(a, 18)),
                            UInt32_shr(a, 3))
           s1 == UInt32_xor(UInt32_xor(UInt32_rotate_right(b, 17),
                                       UInt32_rotate_right(b, 19)),
                            UInt32_shr(b, 10))
           wi == UInt32_wrapping_add_many(<<w[i - 16 + 1], s0, w[i - 7 + 1], s1>>)
       IN  Append(w, wi)

\* The loop body for i = lo .. hi - 1, in order (first half, then second).
RECURSIVE CircuitScheduleRange(_, _, _)
CircuitScheduleRange(w, lo, hi) ==
  IF hi <= lo THEN w
  ELSE IF hi = lo + 1 THEN CircuitScheduleStep(w, lo)
  ELSE LET mid  == (lo + hi) \div 2
           left == CircuitScheduleRange(w, lo, mid)
       IN  IF Len(left) # mid THEN left ELSE CircuitScheduleRange(left, mid, hi)

CircuitScheduleTail(w, i) == CircuitScheduleRange(w, i, 64)

CircuitSchedule(data) == CircuitScheduleTail(CircuitScheduleHead(data), 16)

\* Lines 51-90: one round sub-step.
CircuitRound(h, ki, wi) ==
  LET ch == UInt32_xor(UInt32_and(h[5], h[6]), UInt32_and(UInt32_not(h[5]), h[7]))
      ma == UInt32_xor(UInt32_xor(UInt32_and(h[1], h[2]), UInt32_and(h[1], h[3])),
                       UInt32_and(h[2], h[3]))
      s0 == UInt32_xor(UInt32_xor(UInt32_rotate_right(h[1], 2),
                                  UInt32_rotate_right(h[1], 13)),
                       UInt32_rotate_right(h[1], 22))
      s1 == UInt32_xor(UInt32_xor(UInt32_rotate_right(h[5], 6),
                                  UInt32_rotate_right(h[5], 11)),
                       UInt32_rotate_right(h[5], 25))
      t0 == UInt32_wrapping_add_many(<<h[8], s1, ch, UInt32_constant(ki), wi>>)
      t1 == UInt32_wrapping_add(s0, ma)
  IN  << UInt32_wrapping_add(t0, t1), h[1], h[2], h[3],
         UInt32_wrapping_add(h[4], t0), h[5], h[6], h[7] >>

\* The round sub-steps i = lo .. hi - 1, in order (first half, then second).
RECURSIVE CircuitRoundsRange(_, _, _, _)
CircuitRoundsRange(h, w, lo, hi) ==
  IF hi <= lo THEN h
  ELSE IF hi = lo + 1 THEN CircuitRound(h, K[lo + 1], w[lo + 1])
  ELSE LET mid  == (lo + hi) \div 2
           left == CircuitRoundsRange(h, w, lo, mid)
       IN  IF Len(left) # 8 THEN left ELSE CircuitRoundsRange(left, w, mid, hi)

\* Lines 49-91: the 64 round sub-steps, from i on.
CircuitRounds(h, w, i) == CircuitRoundsRange(h, w, i, 64)

\* Mutant of one_compression_round: the modified state is what is returned.
one_compression_round_mutant(state, data) ==
  IF Len(state) # 8 \/ Len(data) # 64
  THEN [tag |-> "panic"]
  ELSE LET w == CircuitSchedule(data)
           h == CircuitRounds(state, w, 0)
           s == [j \in 1..8 |-> UInt32_wrapping_add(state[j], h[j])]
       IN  IF Len(w) # 64 THEN [tag |-> "panic"]
           ELSE [tag |-> "Ok", val |-> s, state |-> s]

\* one_compression_round(&mut state, &data).  val is the returned vector
\* (Ok(h), line 97); state is the caller's vector after the in-place update
\* of lines 93-95.  w is the 64-entry vector of line 28, computed whole
\* before the first round reads it.
one_compression_round(state, data) ==
  IF Len(state) # 8 \/ Len(data) # 64
  THEN [tag |-> "panic"]
  ELSE LET w == CircuitSchedule(data)
           h == CircuitRounds(state, w, 0)
       IN  IF Len(w) # 64 THEN [tag |-> "panic"]
           ELSE [tag   |-> "Ok",
                 val   |-> h,
                 state |-> [j \in 1..8 |-> UInt32_wrapping_add(state[j], h[j])]]

(***************************************************************************)
(* Message framer: utils.rs, add_sha256_padding, padded_input_to_blocks    *)
(* and sha256_msg_block_sequence.  A byte stream is a sequence of 0..255.  *)
(***************************************************************************)
\* The n low-order bytes of v, most significant first (u64::to_be_bytes
\* for n = 8).
RECURSIVE BeBytes(_, _)
BeBytes(v, n) ==
  IF n = 0 THEN << >> ELSE Append(BeBytes(v \div 256, n - 1), v % 256)

\* Mutant of PadZeros: a whole block of zeros too many.
RECURSIVE PadZeros_extra_block(_, _)
PadZeros_extra_block(padded_input, n) ==
  IF n > 0 \/ (Len(padded_input) + 8) % BLOCK_LENGTH_BYTES # 0
  THEN PadZeros_extra_block(Append(padded_input, 0), IF n > 0 THEN n - 1 ELSE 0)
  ELSE padded_input

PadZeros_mutant(padded_input) ==
  PadZeros_extra_block(padded_input, BLOCK_LENGTH_BYTES)

\* Lines 82-84: push 0u8 while (len + 8) % 64 != 0.
RECURSIVE PadZeros(_)
PadZeros(padded_input) ==
  IF (Len(padded_input) + 8) % BLOCK_LENGTH_BYTES # 0
  THEN PadZeros(Append(padded_input, 0))
  ELSE padded_input

\* Mutant of add_sha256_padding: the length suffix counts bytes, not bits.
add_sha256_padding_mutant(input) ==
  PadZeros(Append(input, 128)) \o BeBytes(Len(input), 8)

\* add_sha256_padding(input)
add_sha256_padding(input) ==
  LET length_in_bits == Len(input) * 8
  IN  PadZeros(Append(input, 128)) \o BeBytes(length_in_bits, 8)

\* Mutant of Reverse: the blocks stay in the order they were pushed.
Reverse_mutant(s) == s

\* blocks.reverse()
Reverse(s) == [k \in 1..Len(s) |-> s[Len(s) + 1 - k]]

\* Mutant of DrainLoop: the loop stops before the block at offset 0.
RECURSIVE DrainLoop_mutant(_, _, _)
DrainLoop_mutant(input_clone, blocks, i) ==
  IF i < 1 THEN blocks
  ELSE DrainLoop_mutant(SubSeq(input_clone, 1, i * BLOCK_LENGTH_BYTES),
                        Append(blocks,
                               SubSeq(input_clone, i * BLOCK_LENGTH_BYTES + 1,
                                      Len(input_clone))),
                        i - 1)

\* Lines 96-99: for i in (0..num_blocks).rev(), drain input_clone from
\* offset i * 64 to its end and push what was drained.
RECURSIVE DrainLoop(_, _, _)
DrainLoop(input_clone, blocks, i) ==
  IF i < 0 THEN blocks
  ELSE DrainLoop(SubSeq(input_clone, 1, i * BLOCK_LENGTH_BYTES),
                 Append(blocks,
                        SubSeq(input_clone, i * BLOCK_LENGTH_BYTES + 1,
                               Len(input_clone))),
                 i - 1)

\* padded_input_to_blocks(input).  The assert! of line 90 and
\* GenericArray::clone_from_slice on a slice that is not 64 long abort.
padded_input_to_blocks(input) ==
  IF Len(input) % BLOCK_LENGTH_BYTES # 0 THEN [tag |-> "panic"]
  ELSE LET num_blocks == Len(input) \div BLOCK_LENGTH_BYTES
           blocks     == Reverse(DrainLoop(input, << >>, num_blocks - 1))
       IN  IF \E k \in 1..Len(blocks) : Len(blocks[k]) # BLOCK_LENGTH_BYTES
           THEN [tag |-> "panic"]
           ELSE [tag |-> "Ok", val |-> blocks]

\* sha256_msg_block_sequence(input)
sha256_msg_block_sequence(input) ==
  padded_input_to_blocks(add_sha256_padding(input))

(***************************************************************************)
(* Representation adapter and step contract: main.rs.  A field element of  *)
(* ark_bn254::Fr is the little-endian byte sequence of its big integer,    *)
(* FrBytes bytes long.                                                     *)
(***************************************************************************)
FrBytes == 32

Zeros(n) == [k \in 1..n |-> 0]

\* F::from(x) for a u32 x and for a u8 b
Fr_from_u32(x) ==
  <<x[2] % 256, x[2] \div 256, x[1] % 256, x[1] \div 256>> \o Zeros(FrBytes - 4)

Fr_from_u8(b) == <<b>> \o Zeros(FrBytes - 1)

\* The field element is the value of a u32 / of a u8.
InRange32(x) == \A k \in 5..Len(x) : x[k] = 0

InRange8(x) == \A k \in 2..Len(x) : x[k] = 0

\* Mutant of bigint_to_u32: the four bytes are read big-endian.
bigint_to_u32_mutant(x) ==
  <<x[1] * 256 + x[2], x[3] * 256 + x[4]>>

\* bigint_to_u32(x), lines 36-43: the four low-order bytes of x.
bigint_to_u32(x) ==
  LET bytes == x
      len   == IF Len(bytes) < 4 THEN Len(bytes) ELSE 4
      array == [k \in 1..4 |-> IF k <= len THEN bytes[k] ELSE 0]
  IN  <<array[4] * 256 + array[3], array[2] * 256 + array[1]>>

\* step_native(_i, z_i, _external_inputs), lines 63-87, with its locals.
\* update_state_ref's result is unwrapped: an Err or an abort ends the call.
step_native(i, z_i, external_inputs) ==
  LET z_to_u32      == [k \in 1..Len(z_i) |-> bigint_to_u32(z_i[k])]
      ext_to_u8     == [k \in 1..Len(external_inputs) |-> external_inputs[k][1]]
      updated_state == update_state_ref(z_to_u32, ext_to_u8)
  IN  IF updated_state.tag # "Ok"
      THEN [tag |-> "panic", z_to_u32 |-> z_to_u32, ext_to_u8 |-> ext_to_u8]
      ELSE [tag           |-> "Ok",
            z_to_u32      |-> z_to_u32,
            ext_to_u8     |-> ext_to_u8,
            updated_state |-> updated_state.val,
            out           |-> [k \in 1..Len(updated_state.val) |->
                                 Fr_from_u32(updated_state.val[k])]]

\* Bit i (from 1) of the big integer of the field element x.
FrBit(x, i) == (x[((i - 1) \div 8) + 1] \div Pow2((i - 1) % 8)) % 2 = 1

\* UInt32::from_fp(x) / UInt8::from_fp(x) on an allocated variable x: the
\* n low bits of x become the word, and the remainder x - word is
\* constrained to be zero (FpVar::to_bits_le_with_top_bits_zero), so the
\* constraint holds exactly when x is in range.  The call itself succeeds.
\* (Mutant of UInt32_from_fp: the remainder is left unconstrained.)
UInt32_from_fp_mutant(x) ==
  [bits |-> SubSeq([i \in 1..32 |-> FrBit(x, i)], 1, 32), holds |-> TRUE]

UInt32_from_fp(x) ==
  [bits |-> SubSeq([i \in 1..32 |-> FrBit(x, i)], 1, 32), holds |-> InRange32(x)]

UInt8_from_fp(x) ==
  [bits |-> SubSeq([i \in 1..8 |-> FrBit(x, i)], 1, 8), holds |-> InRange8(x)]

\* UInt32::to_fp(): the field element the 32 bits encode.
UInt32_to_fp(a) ==
  [k \in 1..4 |-> BitsVal(a, 8 * (k - 1) + 1, 8)] \o Zeros(FrBytes - 4)

\* generate_step_constraints(_cs, _i, z_i, _external_inputs), lines 89-121,
\* with its locals.  z_i[0..7] are indexed one by one: fewer than 8 elements
\* abort.  satisfied is what cs.is_satisfied() answers afterwards: the gadget
\* constraints hold by construction of the witness, the range constraints of
\* from_fp hold when their input is in range.
generate_step_constraints(i, z_i, external_inputs) ==
  IF Len(z_i) < STATE_LEN THEN [tag |-> "panic"]
  ELSE
    LET state_fp == [k \in 1..STATE_LEN |-> UInt32_from_fp(z_i[k])]
        data_fp  == [k \in 1..Len(external_inputs) |->
                       UInt8_from_fp(external_inputs[k])]
        state    == [k \in 1..STATE_LEN |-> state_fp[k].bits]
        data     == [k \in 1..Len(data_fp) |-> data_fp[k].bits]
        r        == one_compression_round(state, data)
    IN  IF r.tag # "Ok" THEN [tag |-> "panic"]
        ELSE [tag       |-> "Ok",
              state_in  |-> state,
              data      |-> data,
              h         |-> r.val,
              state     |-> r.state,
              out       |-> [k \in 1..Len(r.val) |-> UInt32_to_fp(r.val[k])],
              satisfied |-> /\ \A k \in 1..STATE_LEN : state_fp[k].holds
                            /\ \A k \in 1..Len(data_fp) : data_fp[k].holds]

(***************************************************************************)
(* Bounds of the model.                                                    *)
(***************************************************************************)
\* Longest input handed to the framer, in bytes (three blocks from 120 on).
MaxInputLen == 130

\* Number of byte patterns the framer's inputs are filled with.
NumPatterns == 3

\* Number of chained steps the driver folds.
MaxSteps == 3

\* The number of chained step_native calls after the first.
MaxChain == 2

\* How far the length of a state or block is from the one expected.
ShapeSlack == 1

(***************************************************************************)
(* State.                                                                  *)
(*   input, padded_input, blocks_vec : sha256_msg_block_sequence's         *)
(*     argument and locals; fpc is its position.                           *)
(*   i, z_i, external_inputs : the step index, the running state and the   *)
(*     block of the current step, as field elements; pc is the driver's    *)
(*     position in the step.                                               *)
(*   native_call, circuit_call : what step_native and                      *)
(*     generate_step_constraints did on (i, z_i, external_inputs).         *)
(***************************************************************************)
VARIABLES input, padded_input, blocks_vec, fpc,
          i, z_i, external_inputs, pc, native_call, circuit_call

vars == <<input, padded_input, blocks_vec, fpc,
          i, z_i, external_inputs, pc, native_call, circuit_call>>

framer_vars == <<input, padded_input, blocks_vec, fpc>>

step_vars == <<i, z_i, external_inputs, pc, native_call, circuit_call>>

NoCall == [tag |-> "none"]

FramerOff ==
  /\ input = << >>
  /\ padded_input = << >>
  /\ blocks_vec = NoCall
  /\ fpc = "off"

StepOff ==
  /\ i = 0
  /\ z_i = << >>
  /\ external_inputs = << >>
  /\ pc = "off"
  /\ native_call = NoCall
  /\ circuit_call = NoCall

(***************************************************************************)
(* The framer as a state machine: sha256_msg_block_sequence, utils.rs      *)
(* lines 111-119, one action per call it makes.                            *)
(***************************************************************************)
\* Byte k of pattern p: all zero (the example's input), all 0x80, or bytes
\* that differ from position to position.
Pattern(p, k) ==
  IF p = 0 THEN 0
  ELSE IF p = 1 THEN 128
  ELSE (k * (35 + p) + p) % 256

Inputs ==
  { [k \in 1..L |-> Pattern(p, k)] : L \in 0..MaxInputLen, p \in 0..(NumPatterns - 1) }
    \cup { <<97, 98, 99>> }

FramerInit ==
  /\ input \in Inputs
  /\ padded_input = << >>
  /\ blocks_vec = NoCall
  /\ fpc = "input"
  /\ StepOff

\* Line 112.
AddSha256Padding ==
  /\ fpc = "input"
  /\ padded_input' = add_sha256_padding(input)
  /\ fpc' = "padded"
  /\ UNCHANGED <<input, blocks_vec, step_vars>>

\* Lines 113-118.
PaddedInputToBlocks ==
  /\ fpc = "padded"
  /\ blocks_vec' = padded_input_to_blocks(padded_input)
  /\ fpc' = "blocks"
  /\ UNCHANGED <<input, padded_input, step_vars>>

FramerNext == AddSha256Padding \/ PaddedInputToBlocks

SpecFramer == FramerInit /\ [][FramerNext]_vars

(***************************************************************************)
(* Properties of the framer, checked under SpecFramer.                     *)
(***************************************************************************)
\* The integer a big-endian byte sequence encodes.
RECURSIVE BeValue(_)
BeValue(bytes) ==
  IF bytes = << >> THEN 0
  ELSE BeValue(SubSeq(bytes, 1, Len(bytes) - 1)) * 256 + bytes[Len(bytes)]

Padded == fpc \in {"padded", "blocks"}

\* C5 (padding layout): for an input of L bytes the padded stream starts
\* with the input unchanged, has 0x80 at offset L, then only 0x00 up to its
\* last 8 bytes, which are 8 * L as a big-endian 64-bit integer, and its
\* length is a positive multiple of 64.
C5_PaddingLayout ==
  Padded =>
    LET L == Len(input)
        n == Len(padded_input)
    IN  /\ n > 0
        /\ n % 64 = 0
        /\ n >= L + 9
        /\ SubSeq(padded_input, 1, L) = input
        /\ padded_input[L + 1] = 128
        /\ \A k \in (L + 2)..(n - 8) : padded_input[k] = 0
        /\ BeValue(SubSeq(padded_input, n - 7, n)) = 8 * L

\* An input of 56 bytes of 0x80 has been padded to two blocks: the zero run
\* crosses the block boundary.
C5_Witness ==
  /\ fpc = "padded"
  /\ Len(input) = 56
  /\ input[56] = 128
  /\ Len(padded_input) = 128
  /\ padded_input[57] = 128
  /\ padded_input[127] = 1 /\ padded_input[128] = 192

\* C6 as stated: the padded length is the smallest multiple of 64 strictly
\* greater than L + 9.
C6_Original ==
  Padded =>
    LET L == Len(input)
        n == Len(padded_input)
    IN  /\ n % 64 = 0
        /\ n > L + 9
        /\ n - 64 <= L + 9

\* C6 (padded-length minimality, amended): the padded length is the smallest
\* multiple of 64 greater than or equal to L + 9.
C6_PaddedLengthMinimal ==
  Padded =>
    LET L == Len(input)
        n == Len(padded_input)
    IN  /\ n % 64 = 0
        /\ n >= L + 9
        /\ n - 64 < L + 9

\* An input of 55 bytes has been padded to exactly one block: L + 9 = 64.
C6_Witness ==
  /\ fpc = "padded"
  /\ Len(input) = 55
  /\ Len(padded_input) = 64

\* C7 (block count): for an input of L bytes sha256_msg_block_sequence
\* returns ceil((L + 9) / 64) blocks, at least one, each of 64 bytes.
C7_BlockCount ==
  fpc = "blocks" =>
    /\ blocks_vec.tag = "Ok"
    /\ Len(blocks_vec.val) = (Len(input) + 9 + 63) \div 64
    /\ Len(blocks_vec.val) >= 1
    /\ \A k \in 1..Len(blocks_vec.val) : Len(blocks_vec.val[k]) = 64

\* The empty input has been framed into one block.
C7_Witness ==
  /\ fpc = "blocks"
  /\ input = << >>
  /\ blocks_vec.tag = "Ok"
  /\ Len(blocks_vec.val) = 1

\* C8 (splitting preserves order): block k is bytes 64k .. 64k + 63 of the
\* padded stream, and the blocks together are as long as the stream.
C8_SplitOrder ==
  fpc = "blocks" /\ Len(padded_input) % 64 = 0 =>
    /\ blocks_vec.tag = "Ok"
    /\ 64 * Len(blocks_vec.val) = Len(padded_input)
    /\ \A k \in 1..Len(blocks_vec.val) :
         /\ Len(blocks_vec.val[k]) = 64
         /\ \A j \in 1..64 :
              blocks_vec.val[k][j] = padded_input[64 * (k - 1) + j]

\* A stream of three blocks, no two of them equal, has been split.
C8_Witness ==
  /\ fpc = "blocks"
  /\ blocks_vec.tag = "Ok"
  /\ Len(blocks_vec.val) = 3
  /\ blocks_vec.val[1] # blocks_vec.val[2]
  /\ blocks_vec.val[2] # blocks_vec.val[3]
  /\ blocks_vec.val[1] # blocks_vec.val[3]

(***************************************************************************)
(* The step contract as a state machine: the driver of main.rs lines       *)
(* 257-274 evaluates the step natively and in the constraint system on the *)
(* same (i, z_i, external_inputs) and then folds to the next state.        *)
(***************************************************************************)
\* main.rs lines 220-229: the initial state, H as field elements.
HField == [j \in 1..STATE_LEN |-> Fr_from_u32(H[j])]

\* x with its byte k (from 1) replaced by b.
WithByte(x, k, b) == [x EXCEPT ![k] = b]

\* Initial states: H; H with 2^32 added to its first word; H with 2^253
\* added to its last word.
InitialStates ==
  { HField,
    [HField EXCEPT ![1] = WithByte(HField[1], 5, 1)],
    [HField EXCEPT ![8] = WithByte(HField[8], FrBytes, 32)] }

\* main.rs lines 147-150: a block as field elements.
BlockToField(block) == [k \in 1..Len(block) |-> Fr_from_u8(block[k])]

AbcExt == BlockToField(sha256_msg_block_sequence(<<97, 98, 99>>).val[1])

ZeroExt == BlockToField(Zeros(BLOCK_LENGTH_BYTES))

\* The blocks of a step: the padded block of "abc", the all-zero block,
\* and the block of "abc" with 256 added to its first element.
ExternalInputs ==
  { AbcExt, ZeroExt, [AbcExt EXCEPT ![1] = WithByte(AbcExt[1], 2, 1)] }

StepInit ==
  /\ FramerOff
  /\ i = 0
  /\ z_i \in InitialStates
  /\ external_inputs = << >>
  /\ pc = "ready"
  /\ native_call = NoCall
  /\ circuit_call = NoCall

StepNative(e) ==
  /\ pc = "ready"
  /\ external_inputs' = e
  /\ native_call' = step_native(i, z_i, e)
  /\ pc' = "native"
  /\ UNCHANGED <<i, z_i, circuit_call, framer_vars>>

GenerateStepConstraints ==
  /\ pc = "native"
  /\ circuit_call' = generate_step_constraints(i, z_i, external_inputs)
  /\ pc' = "both"
  /\ UNCHANGED <<i, z_i, external_inputs, native_call, framer_vars>>

\* The driver takes the native result as the next state.
ProveStep ==
  /\ pc = "both"
  /\ native_call.tag = "Ok"
  /\ i < MaxSteps
  /\ z_i' = native_call.out
  /\ i' = i + 1
  /\ external_inputs' = << >>
  /\ native_call' = NoCall
  /\ circuit_call' = NoCall
  /\ pc' = "ready"
  /\ UNCHANGED framer_vars

StepNext ==
  \/ \E e \in ExternalInputs : StepNative(e)
  \/ GenerateStepConstraints
  \/ ProveStep

SpecStep == StepInit /\ [][StepNext]_vars

(***************************************************************************)
(* Properties of the step contract, checked under SpecStep.                *)
(***************************************************************************)
NativeCalled == pc \in {"native", "both"}

BothCalled == pc = "both"

\* Some element of the step's input is outside its range: a state element
\* not in [0, 2^32) or an external input not in [0, 256).
OutOfRangeInput ==
  \/ \E k \in 1..Len(z_i) : ~InRange32(z_i[k])
  \/ \E k \in 1..Len(external_inputs) : ~InRange8(external_inputs[k])

\* main.rs lines 194-201: each element's last 4 big-endian bytes, in order.
Serialize(out) ==
  [n \in 1..(4 * Len(out)) |-> out[((n - 1) \div 4) + 1][4 - ((n - 1) % 4)]]

\* ba7816bf 8f01cfea 414140de 5dae2223 b00361a3 96177a9c b410ff61 f20015ad
AbcDigest ==
  <<
     \Hba, \H78, \H16, \Hbf, \H8f, \H01, \Hcf, \Hea,
     \H41, \H41, \H40, \Hde, \H5d, \Hae, \H22, \H23,
     \Hb0, \H03, \H61, \Ha3, \H96, \H17, \H7a, \H9c,
     \Hb4, \H10, \Hff, \H61, \Hf2, \H00, \H15, \Had
  >>

\* C1 (known-answer test): step_native on the state H and the padded block
\* of "abc" returns a state that serializes to the digest AbcDigest.
C1_KnownAnswer ==
  NativeCalled /\ z_i = HField /\ external_inputs = AbcExt =>
    /\ native_call.tag = "Ok"
    /\ Serialize(native_call.out) = AbcDigest

\* C2 (feed-forward): the state update_state_ref returns is, word by word,
\* the sum modulo 2^32 of its input state and the working registers after
\* the 64 round sub-steps.
C2_FeedForward ==
  NativeCalled /\ native_call.tag = "Ok" =>
    LET s == native_call.z_to_u32
        w == RefSchedule(native_call.ext_to_u8)
        h == RefRounds(s, w, 0)
    IN  /\ Len(w) = 64
        /\ \A j \in 1..8 :
             native_call.updated_state[j] = u32_wrapping_add(s[j], h[j])

\* The words and bytes the two engines were called on are the same.
SameEngineInput ==
  /\ [j \in 1..8 |-> UInt32_value(circuit_call.state_in[j])] = native_call.z_to_u32
  /\ [k \in 1..64 |-> UInt8_value(circuit_call.data[k])] = native_call.ext_to_u8

\* C3 (cross-mode engine equivalence): on the same state and block, the
\* words one_compression_round returns have the values of the words
\* update_state_ref returns.
C3_CrossModeEquivalence ==
  BothCalled /\ native_call.tag = "Ok" /\ circuit_call.tag = "Ok"
    /\ SameEngineInput =>
    [j \in 1..8 |-> UInt32_value(circuit_call.h[j])] = native_call.updated_state

\* Both engines have run on the same input in the second step of a chain.
C3_Witness ==
  /\ BothCalled
  /\ i = 1
  /\ native_call.tag = "Ok"
  /\ circuit_call.tag = "Ok"
  /\ SameEngineInput
  /\ Len(circuit_call.h) = 8
  /\ native_call.updated_state # native_call.z_to_u32

\* C4 (step-level equivalence): on 8 state elements and 64 external inputs
\* the field elements generate_step_constraints returns have the values
\* step_native returns.
C4_StepEquivalence ==
  BothCalled /\ Len(z_i) = 8 /\ Len(external_inputs) = 64 =>
    /\ native_call.tag = "Ok"
    /\ circuit_call.tag = "Ok"
    /\ circuit_call.out = native_call.out

\* Both steps have returned on the state H and the block of "abc".
C4_Witness ==
  /\ BothCalled
  /\ z_i = HField
  /\ external_inputs = AbcExt
  /\ native_call.tag = "Ok"
  /\ circuit_call.tag = "Ok"
  /\ Len(circuit_call.out) = 8
  /\ circuit_call.out # z_i

\* C9 (native range violations are fatal): step_native on an input with an
\* element out of range ends in an error and returns no state.
C9_NativeRangeFatal ==
  NativeCalled /\ OutOfRangeInput => native_call.tag # "Ok"

Resize(s, n, fill) == [k \in 1..n |-> IF k <= Len(s) THEN s[k] ELSE fill]

ZeroState == [j \in 1..STATE_LEN |-> Fr_from_u32(<<0, 0>>)]

\* States of 8 - ShapeSlack .. 8 + ShapeSlack elements, all in range.
ShapeStates ==
  { Resize(base, n, base[1]) :
      base \in {HField, ZeroState},
      n \in (STATE_LEN - ShapeSlack)..(STATE_LEN + ShapeSlack) }

\* Blocks of 64 - ShapeSlack .. 64 + ShapeSlack elements, all in range.
ShapeBlocks ==
  { Resize(base, n, base[1]) :
      base \in {AbcExt, ZeroExt},
      n \in (BLOCK_LENGTH_BYTES - ShapeSlack)..(BLOCK_LENGTH_BYTES + ShapeSlack) }

ShapeInit ==
  /\ FramerOff
  /\ i = 0
  /\ z_i \in ShapeStates
  /\ external_inputs \in ShapeBlocks
  /\ pc = "ready"
  /\ native_call = NoCall
  /\ circuit_call = NoCall

\* The words and bytes, and the constraint-system words and bytes, that the
\* field elements stand for (the engines' arguments).
WordsOf(z) == [k \in 1..Len(z) |-> bigint_to_u32(z[k])]

BytesOf(e) == [k \in 1..Len(e) |-> e[k][1]]

UInt32sOf(z) == [k \in 1..Len(z) |-> UInt32_constant(bigint_to_u32(z[k]))]

UInt8sOf(e) == [k \in 1..Len(e) |-> UInt8_constant(e[k][1])]

CallStepNative ==
  /\ pc = "ready"
  /\ native_call' = step_native(i, z_i, external_inputs)
  /\ pc' = "step_native"
  /\ UNCHANGED <<i, z_i, external_inputs, circuit_call, framer_vars>>

CallUpdateStateRef ==
  /\ pc = "ready"
  /\ native_call' = update_state_ref(WordsOf(z_i), BytesOf(external_inputs))
  /\ pc' = "update_state_ref"
  /\ UNCHANGED <<i, z_i, external_inputs, circuit_call, framer_vars>>

CallGenerateStepConstraints ==
  /\ pc = "ready"
  /\ circuit_call' = generate_step_constraints(i, z_i, external_inputs)
  /\ pc' = "generate_step_constraints"
  /\ UNCHANGED <<i, z_i, external_inputs, native_call, framer_vars>>

CallOneCompressionRound ==
  /\ pc = "ready"
  /\ circuit_call' = one_compression_round(UInt32sOf(z_i), UInt8sOf(external_inputs))
  /\ pc' = "one_compression_round"
  /\ UNCHANGED <<i, z_i, external_inputs, native_call, framer_vars>>

ShapeNext ==
  \/ CallStepNative
  \/ CallUpdateStateRef
  \/ CallGenerateStepConstraints
  \/ CallOneCompressionRound

SpecShape == ShapeInit /\ [][ShapeNext]_vars

(***************************************************************************)
(* Properties of the entry points on wrong shapes, checked under           *)
(* SpecShape.                                                              *)
(***************************************************************************)
ShapeCalled ==
  pc \in {"step_native", "update_state_ref",
          "generate_step_constraints", "one_compression_round"}

ShapeViolation ==
  Len(z_i) # 8 \/ Len(external_inputs) # 64

\* How the call that was made ended.
CallTag ==
  IF pc \in {"step_native", "update_state_ref"}
  THEN native_call.tag
  ELSE circuit_call.tag

\* C11 (shape violations abort the call): each of the four entry points,
\* given a state that is not 8 long or a block that is not 64 long, aborts
\* and returns no state.
C11_ShapeViolationAborts ==
  ShapeCalled /\ ShapeViolation => CallTag = "panic"

(***************************************************************************)
(* The chain of native steps: step_native on a valid state and a valid     *)
(* block, its output taken as the next state (main.rs, lines 260-274).     *)
(***************************************************************************)
\* The state whose 8 words are all 0xffffffff.
FullState == [j \in 1..STATE_LEN |-> Fr_from_u32(<<HALF - 1, HALF - 1>>)]

\* The block whose 64 bytes are all 0xff.
FullExt == BlockToField([k \in 1..BLOCK_LENGTH_BYTES |-> 255])

\* x is a field element with the value of a u32 / of a u8.
IsWord(x) ==
  /\ Len(x) = FrBytes
  /\ \A k \in 1..Len(x) : x[k] \in 0..255
  /\ InRange32(x)

IsByte(x) ==
  /\ Len(x) = FrBytes
  /\ \A k \in 1..Len(x) : x[k] \in 0..255
  /\ InRange8(x)

\* A state of exactly 8 field elements, each in [0, 2^32).
ValidState(z) == Len(z) = STATE_LEN /\ \A j \in 1..Len(z) : IsWord(z[j])

\* A block of exactly 64 field elements, each in [0, 256).
ValidBlock(e) ==
  Len(e) = BLOCK_LENGTH_BYTES /\ \A k \in 1..Len(e) : IsByte(e[k])

ChainStates == {HField, ZeroState, FullState}

ChainBlocks == {AbcExt, ZeroExt, FullExt}

ChainInit ==
  /\ FramerOff
  /\ i = 0
  /\ z_i \in ChainStates
  /\ external_inputs = << >>
  /\ pc = "ready"
  /\ native_call = NoCall
  /\ circuit_call = NoCall

\* The output of the call becomes the state of the next call.
FeedOutput ==
  /\ pc = "native"
  /\ native_call.tag = "Ok"
  /\ i < MaxChain
  /\ z_i' = native_call.out
  /\ i' = i + 1
  /\ external_inputs' = << >>
  /\ native_call' = NoCall
  /\ pc' = "ready"
  /\ UNCHANGED <<circuit_call, framer_vars>>

ChainNext ==
  \/ \E e \in ChainBlocks : StepNative(e)
  \/ FeedOutput

SpecChain == ChainInit /\ [][ChainNext]_vars

(***************************************************************************)
(* Properties of the chain, checked under SpecChain.                       *)
(***************************************************************************)
\* C12 (state validity is preserved by chaining): from a state of 8 field
\* elements in [0, 2^32), through any sequence of step_native calls each fed
\* the previous output and 64 external inputs in [0, 256), every call returns
\* Ok and the current state is 8 field elements in [0, 2^32).
C12_ChainKeepsStateValid ==
  /\ ValidState(z_i)
  /\ NativeCalled =>
       /\ ValidBlock(external_inputs)
       /\ native_call.tag = "Ok"
       /\ ValidState(native_call.out)

\* A call made on the output of a chain of MaxChain calls has returned, and
\* has changed the state.
C12_Witness ==
  /\ NativeCalled
  /\ i = MaxChain
  /\ native_call.tag = "Ok"
  /\ native_call.out # z_i
  /\ z_i \notin ChainStates

(***************************************************************************)
(* The frame effect of one_compression_round on its caller, checked under  *)
(* SpecStep.                                                               *)
(***************************************************************************)
\* The values of a vector of constraint-system words.
ValuesOf(v) == [j \in 1..Len(v) |-> UInt32_value(v[j])]

\* C13 (in-place update of the caller's state): when one_compression_round
\* returns, the caller's state[j] is (state_before[j] + returned[j]) mod 2^32
\* for every j, returned being the working registers after the 64 sub-steps;
\* generate_step_constraints outputs the returned vector, not the modified
\* state.
C13_StateModifiedInPlace ==
  BothCalled /\ circuit_call.tag = "Ok" =>
    LET before   == ValuesOf(circuit_call.state_in)
        returned == ValuesOf(circuit_call.h)
        after    == ValuesOf(circuit_call.state)
        w        == RefSchedule([k \in 1..64 |->
                                   UInt8_value(circuit_call.data[k])])
    IN  /\ Len(before) = 8 /\ Len(after) = 8 /\ Len(returned) = 8
        /\ Len(w) = 64
        /\ returned = RefRounds(before, w, 0)
        /\ \A j \in 1..8 : after[j] = u32_wrapping_add(before[j], returned[j])
        /\ circuit_call.out = [j \in 1..8 |-> Fr_from_u32(returned[j])]

\* On H and the block of "abc" the modified state is the digest of "abc",
\* and the output of generate_step_constraints is another vector.
C13_Witness ==
  /\ BothCalled
  /\ circuit_call.tag = "Ok"
  /\ z_i = HField
  /\ external_inputs = AbcExt
  /\ Serialize([j \in 1..8 |-> UInt32_to_fp(circuit_call.state[j])]) = AbcDigest
  /\ Serialize(circuit_call.out) # AbcDigest
  /\ circuit_call.state # circuit_call.state_in
====
